---- MODULE Spec2Model ----
(***************************************************************************)
(* A model of rosu-v2's ranking/news result pages:                         *)
(*   - the merged entity codec (serialize_user_stats_vec /                 *)
(*     deserialize_user_stats_vec) of src/model/ranking.rs,                *)
(*   - the page-number cursor decoder (deserialize_rankings_cursor),       *)
(*   - get_next of Rankings, CountryRankings and News.                     *)
(* The three parts share one specification: a behaviour exercises one of   *)
(* them, the variables of the other two at rest.                           *)
(***************************************************************************)
EXTENDS Integers, Sequences, FiniteSets, Bags, TLC

VARIABLES
    users,      \* codec: the Vec<UserCompact> handed to the encoder
    encoded,    \* codec: the Result of serialize_user_stats_vec (Option)
    wire,       \* codec: the JSON array in flight (Option)
    decoded,    \* codec: the Result of deserialize_user_stats_vec (Option)
    cursor_in,  \* cursor: the wire form of a page's "cursor" field
    cursor_out, \* cursor: the Result of deserialize_rankings_cursor (Option)
    pages,      \* pages: the result pages that exist, in creation order
    calls,      \* pages: the get_next futures created so far
    transport,  \* pages: the requests handed to the transport, in order
    origin      \* pages: for each page, the request that produced it (Option)

vars == <<users, encoded, wire, decoded, cursor_in, cursor_out, pages, calls,
          transport, origin>>

(***************************************************************************)
(* Option<T>: None is the empty tuple, Some(v) the one-element tuple.      *)
(***************************************************************************)
None == <<>>

Some(v) == <<v>>

IsSome(o) == o /= <<>>

Unwrap(o) == o[1]

(***************************************************************************)
(* Result<T, E>.  The error kinds are serde's: a missing field (named), an *)
(* invalid type/value met by next_value, and the panic of unwrap().        *)
(***************************************************************************)
Ok(v) == [ok |-> TRUE, value |-> v]

MissingField(name) == [ok |-> FALSE, err |-> "missing_field", field |-> name]

InvalidType(name) == [ok |-> FALSE, err |-> "invalid_type", field |-> name]

Panic(what) == [ok |-> FALSE, err |-> "panic", field |-> what]

\* serde_json's "number out of range": a JSON number too large for an f64.
NumberOutOfRange(name) ==
    [ok |-> FALSE, err |-> "number_out_of_range", field |-> name]

(***************************************************************************)
(* JSON values.  A number is a u64 kept as two u32 words (hi, v), so that  *)
(* the value is hi * 2^32 + v: `as u32` keeps v, and the number fits a u32 *)
(* exactly when hi = 0.  A negative number is of kind "neg".  An object is  *)
(* the sequence of its <<key, value>> pairs in wire order; a pair whose    *)
(* key is written with an escape sequence ("p\u0061ge" for page) has a     *)
(* third element, and its first element is the key the escapes stand for.  *)
(* "struct" is a nested object or array whose codec is derived outside     *)
(* this model.                                                             *)
(***************************************************************************)
JNull == [t |-> "null"]

JNum(n) == [t |-> "num", hi |-> 0, v |-> n]

JBig(h, n) == [t |-> "num", hi |-> h, v |-> n]

JNeg(n) == [t |-> "neg", n |-> n]

\* A JSON number written with a fraction or an exponent: its sign, its
\* significant digits as an integer and its decimal exponent, the value
\* being digits * 10^exp (98.5 is 985 and -1, 134217730.0 is 13421773 and 1).
JFloat(neg, digits, exp) ==
    [t |-> "float", neg |-> neg, digits |-> digits, exp |-> exp]

JBool(b) == [t |-> "bool", b |-> b]

JStr(s) == [t |-> "str", s |-> s]

JStruct(x) == [t |-> "struct", x |-> x]

JObj(ps) == [t |-> "obj", ps |-> ps]

\* The pair of key k and value v with the key written with an escape.
Escaped(k, v) == <<k, v, TRUE>>

JArr(xs) == [t |-> "arr", xs |-> xs]

\* The scalar a JSON value of kind "bool", "str" or "struct" holds.
Scalar(j) ==
    CASE j.t = "bool" -> j.b
      [] j.t = "str" -> j.s
      [] OTHER -> j.x

\* The Rust numbers wider than a word.  A u64 is its two 32-bit words.  A
\* finite f32 is its sign, an odd significand m below 2^24 and a binary
\* exponent e, the value being m * 2^e (98.5 is 197 and -1, 7000.0 is 875
\* and 3; the smallest subnormal is 1 and -149); zero has m = 0 and e = 0.
\* An infinity is written as the 2^128 every overflow rounds to.  A u8 or
\* u32 is an integer.
U64(h, n) == [hi |-> h, lo |-> n]

F32(neg, m, e) == [neg |-> neg, m |-> m, e |-> e]

Infinity(neg) == F32(neg, 1, 128)

IsFinite(v) == v.e < 128

MaxOf(S) == CHOOSE x \in S : \A y \in S : y <= x

MinOf(S) == CHOOSE x \in S : \A y \in S : x <= y

\* The number of bits of n (0 for 0), n below 2^31.
BitLen(n) == Cardinality({b \in 0..30 : 2^b <= n})

\* The f32 of m * 2^e with its significand made odd.
Canon(neg, m, e) ==
    IF m = 0 THEN F32(neg, 0, 0)
    ELSE F32(neg, m \div 2^MaxOf({b \in 0..24 : m % 2^b = 0}),
             e + MaxOf({b \in 0..24 : m % 2^b = 0}))

\* Round to nearest, ties to even: q holds 25 bits of a magnitude q * 2^t,
\* the lowest being the bit to round away; sticky tells that bits below q
\* were set.
RoundQ(neg, q, sticky, t) ==
    Canon(neg,
          q \div 2 + (IF q % 2 = 1 /\ (sticky \/ (q \div 2) % 2 = 1) THEN 1 ELSE 0),
          t + 1)

\* n shifted right by t bits, and the t bits shifted out (n below 2^31).
Shr(n, t) == IF t >= 31 THEN 0 ELSE n \div 2^t

LowBits(n, t) == IF t >= 31 THEN n ELSE n % 2^t

\* Op of the value v, for a value that Op uses more than once.
With(v, Op(_)) == Op(v)

\* RoundQ within the range of an f32: a rounded magnitude of 2^128 or more
\* is an infinity; below 2^-126 the last place stays 2^-149, so the bits of
\* q below it are rounded away as well.
RoundF32(neg, q, sticky, t) ==
    IF t >= -150
    THEN With(RoundQ(neg, q, sticky, t),
              LAMBDA v : IF v.m /= 0 /\ BitLen(v.m) + v.e > 128 THEN Infinity(neg) ELSE v)
    ELSE RoundQ(neg, Shr(q, -150 - t), sticky \/ LowBits(q, -150 - t) /= 0, -150)

\* `v as f32` of the integer with the words h and n, negated if neg.
IntToF32(neg, h, n) ==
    IF h = 0
    THEN IF n < 2^24 THEN Canon(neg, n, 0)
         ELSE RoundQ(neg, Shr(n, BitLen(n) - 25),
                     LowBits(n, BitLen(n) - 25) /= 0, BitLen(n) - 25)
    ELSE IF BitLen(h) >= 25
    THEN RoundQ(neg, Shr(h, BitLen(h) - 25),
                LowBits(h, BitLen(h) - 25) /= 0 \/ n /= 0, BitLen(h) + 7)
    ELSE RoundQ(neg, h * 2^(25 - BitLen(h)) + Shr(n, BitLen(h) + 7),
                LowBits(n, BitLen(h) + 7) /= 0, BitLen(h) + 7)

\* Natural numbers of any width in decimal: the sequence of the digits,
\* lowest first, without leading zeros (zero is the empty sequence).
Digits(n) ==
    [i \in 1..Cardinality({p \in 0..9 : 10^p <= n}) |-> (n \div 10^(i - 1)) % 10]

\* d without its leading zeros (the highest places).
Trim(d) ==
    With(SubSeq(d, 1, Len(d)),
         LAMBDA t : SubSeq(t, 1, Len(t) - Cardinality({i \in 1..Len(t) :
                                                        \A j \in i..Len(t) : t[j] = 0})))

\* The integer of at most 9 digits.
ToInt(d) ==
    LET at(i) == IF i <= Len(d) THEN d[i] * 10^(i - 1) ELSE 0
    IN  at(1) + at(2) + at(3) + at(4) + at(5) + at(6) + at(7) + at(8) + at(9)

\* d divided by two, rounded down.
Half(d) ==
    Trim([i \in 1..Len(d) |->
             (d[i] + (IF i < Len(d) /\ d[i + 1] % 2 = 1 THEN 10 ELSE 0)) \div 2])

\* d divided by 10^k, rounded down, and whether nothing was dropped.
DropLow(d, k) == IF k >= Len(d) THEN <<>> ELSE SubSeq(d, k + 1, Len(d))

LowZero(d, k) == \A i \in 1..k : i > Len(d) \/ d[i] = 0

Less(a, b) ==
    \/ Len(a) < Len(b)
    \/ /\ Len(a) = Len(b)
       /\ \E i \in 1..Len(a) :
             a[i] < b[i] /\ \A j \in (i + 1)..Len(a) : a[j] = b[j]

\* The digit of 10^(i-1) in d.
Digit(d, i) == IF i <= Len(d) THEN d[i] ELSE 0

\* a + b, from the sums s of the digits place by place: a carry enters
\* place i when the places below i overflow, that is when the highest place
\* below i whose sum is not 9 has a sum above 9.
Plus(a, b) ==
    With(SubSeq([i \in 1..MaxOf({Len(a), Len(b)}) + 1 |-> Digit(a, i) + Digit(b, i)],
                1, MaxOf({Len(a), Len(b)}) + 1),
         LAMBDA s : Trim([i \in 1..Len(s) |->
             (s[i] + (IF i = 1 THEN 0
                      ELSE IF s[i - 1] /= 9 THEN s[i - 1] \div 10
                      ELSE IF \E j \in 1..(i - 2) :
                                s[j] >= 10 /\ \A l \in (j + 1)..(i - 2) : s[l] = 9
                      THEN 1 ELSE 0)) % 10]))

\* a - b for a >= b, from the differences s of the digits place by place: a
\* borrow enters place i when a is below b in the places below i, that is
\* in the highest of them where they differ.
Minus(a, b) ==
    With(SubSeq([i \in 1..Len(a) |-> a[i] - Digit(b, i)], 1, Len(a)),
         LAMBDA s : Trim([i \in 1..Len(s) |->
             (10 + s[i] - (IF i = 1 THEN 0
                           ELSE IF s[i - 1] /= 0 THEN (IF s[i - 1] < 0 THEN 1 ELSE 0)
                           ELSE IF \E j \in 1..(i - 2) :
                                     s[j] < 0 /\ \A l \in (j + 1)..(i - 2) : s[l] = 0
                           THEN 1 ELSE 0)) % 10]))

\* a * b, by long multiplication.  Column i is the sum of the products of
\* the digits whose places add up to i (the sum of a function's values f[j]
\* is the size of the bag with f[j] + 1 copies of each j, less one for each
\* j); a column is below 10^4 for factors of up to 120 digits, and the
\* product is the sum of the four numbers made of the columns' units, tens,
\* hundreds and thousands, each at its column's place.
Times(a, b) ==
    IF Len(a) = 0 \/ Len(b) = 0 THEN <<>>
    ELSE With(SubSeq([i \in 1..(Len(a) + Len(b) - 1) |->
                  With([j \in MaxOf({1, i + 1 - Len(b)})..MinOf({Len(a), i}) |->
                           a[j] * b[i + 1 - j] + 1],
                       LAMBDA f : BagCardinality(f) - Cardinality(DOMAIN f))],
                  1, Len(a) + Len(b) - 1),
              LAMBDA c :
                  LET plane(p) == Trim([i \in 1..(Len(c) + p) |->
                                     IF i <= p THEN 0 ELSE (c[i - p] \div 10^p) % 10])
                  IN  Plus(Plus(plane(0), plane(1)), Plus(plane(2), plane(3))))

\* b^n, by squaring the power of half the exponent.
RECURSIVE Power(_, _)
Power(b, n) ==
    IF n = 0 THEN <<1>>
    ELSE With(Power(b, n \div 2),
              LAMBDA h : IF n % 2 = 1 THEN Times(b, Times(h, h)) ELSE Times(h, h))

\* The powers of two and of five in decimal, 2^t at place t + 1 of Pow2 for
\* t up to 128 and 5^k at place k + 1 of Pow5 for k up to 151: the widest
\* the conversions of an f32 use.
Pow2 == SubSeq([t \in 1..129 |-> Power(<<2>>, t - 1)], 1, 129)

Pow5 == SubSeq([k \in 1..152 |-> Power(<<5>>, k - 1)], 1, 152)

TwoTo(t) == Pow2[t + 1]

FiveTo(k) == Pow5[k + 1]

\* d * 2^e for e >= 0; d * 5^(-e), that is d * 2^e * 10^(-e), for e < 0.
Scaled(d, e) == Times(d, IF e >= 0 THEN TwoTo(e) ELSE FiveTo(0 - e))

\* The number of bits of n, n below 2^128.
BitLenOf(n) == Cardinality({t \in 0..127 : ~Less(n, TwoTo(t))})

\* d with its j lowest digits made zero, and the next multiple of 10^j.
FloorAt(d, j) == Trim([i \in 1..Len(d) |-> IF i <= j THEN 0 ELSE d[i]])

AddPow10(d, j) ==
    LET p == [i \in 1..(IF Len(d) > j THEN Len(d) ELSE j + 1) |->
                 IF i <= Len(d) THEN d[i] ELSE 0]
        non9 == {i \in (j + 1)..Len(p) : p[i] /= 9}
    IN  IF non9 = {}
        THEN [i \in 1..Len(p) + 1 |->
                 IF i <= j THEN p[i] ELSE IF i = Len(p) + 1 THEN 1 ELSE 0]
        ELSE [i \in 1..Len(p) |->
                 IF i <= j THEN p[i]
                 ELSE IF i < MinOf(non9) THEN 0
                 ELSE IF i = MinOf(non9) THEN p[i] + 1
                 ELSE p[i]]

CeilAt(d, j) == AddPow10(FloorAt(d, j), j)

\* c lies in the interval of the decimals that read back as the float:
\* from lo to hi, the ends included when the float's significand is even.
Within(c, lo, hi, closed) ==
    IF closed THEN ~Less(c, lo) /\ ~Less(hi, c) ELSE Less(lo, c) /\ Less(c, hi)

\* Of the multiples f and c of 10^j around x, those in the interval, the
\* one nearest to x, a tie to the one whose last digit is even.  The digits
\* of x below 10^j are under half of 10^j when the highest is under 5, over
\* half when it is over 5 or is 5 with a digit below it that is not zero.
Nearest(x, f, c, lo, hi, closed, j) ==
    IF ~Within(c, lo, hi, closed) THEN f
    ELSE IF ~Within(f, lo, hi, closed) THEN c
    ELSE IF j = 0 \/ x[j] < 5 THEN f
    ELSE IF x[j] > 5 \/ \E i \in 1..(j - 1) : x[i] /= 0 THEN c
    ELSE IF x[j + 1] % 2 = 0 THEN f
    ELSE c

\* The decimal c * 10^exp as a JSON number, its trailing zeros moved to the
\* exponent.
Stripped(neg, c, exp) ==
    With(MinOf({i \in 1..Len(c) : c[i] /= 0}) - 1,
         LAMBDA zeros : JFloat(neg, ToInt(DropLow(c, zeros)), exp + zeros))

\* The shortest decimal between lo and hi, nearest to x: the one with the
\* most trailing zeros.
ShortestIn(neg, x, lo, hi, closed, exp) ==
    With(MaxOf({j \in 0..Len(x) :
                   \/ Within(FloorAt(x, j), lo, hi, closed)
                   \/ Within(CeilAt(x, j), lo, hi, closed)}),
         LAMBDA j : Stripped(neg,
                             Nearest(x, FloorAt(x, j), CeilAt(x, j), lo, hi, closed, j),
                             exp))

\* The shortest decimal that reads back as the f32 m * 2^e (m odd), as
\* serde_json writes a finite f32.  With the significand widened to 24 bits
\* (m24 = m * 2^s), the f32 is 4 * m24 quarters of its last place; the
\* decimals that read back as it reach 2 quarters up and 2 quarters down (1
\* when m24 is 2^23 and the floats below are twice as dense, that is for a
\* power of two above the smallest normal float 2^-126).  A subnormal float
\* is widened only down to the last place 2^-149.
Shortest(neg, m, e, s) ==
    With(IF e - s - 2 >= 0 THEN TwoTo(e - s - 2) ELSE FiveTo(s + 2 - e),
         LAMBDA unit :
             ShortestIn(neg,
                        Times(Digits(4 * m * 2^s), unit),
                        Times(Digits(4 * m * 2^s - (IF m = 1 /\ e > -126 THEN 1 ELSE 2)), unit),
                        Times(Digits(4 * m * 2^s + 2), unit),
                        s >= 1,
                        IF e - s - 2 < 0 THEN e - s - 2 ELSE 0))

\* serde_json's serialize_f32: null for a value that is not finite, else
\* the shortest decimal.
F32ToJson(v) ==
    IF ~IsFinite(v) THEN JNull
    ELSE IF v.m = 0 THEN JFloat(v.neg, 0, 0)
    ELSE With(Canon(v.neg, v.m, v.e),
              LAMBDA c : Shortest(c.neg, c.m, c.e, MinOf({24 - BitLen(c.m), c.e + 149})))

\* The leading w bits q of n, which has `bits` bits: q is n * 2^s up to the
\* bits dropped, and sticky tells that a set bit was dropped.  Halving t
\* times is multiplying by 5^t and dropping t decimal digits.
NarrowTo(n, bits, w, sticky) ==
    IF bits = w THEN [q |-> n, s |-> 0, sticky |-> sticky]
    ELSE With(Scaled(n, w - bits),
              LAMBDA p : IF bits < w THEN [q |-> p, s |-> w - bits, sticky |-> sticky]
                         ELSE [q |-> DropLow(p, bits - w), s |-> w - bits,
                               sticky |-> sticky \/ ~LowZero(p, bits - w)])

\* The f64 nearest to n * 2^e, n of `bits` bits and not zero (and of 54 bits
\* or more when sticky is set): 54 bits of it, the lowest rounded away to
\* nearest, a tie to even.  A finite f64 that is not zero is a significand m
\* of 53 bits, kept in decimal, and a binary exponent e, the value being
\* m * 2^e.
Round53(n, bits, e, sticky) ==
    With(NarrowTo(n, bits, 54, sticky),
         LAMBDA r : With(Half(r.q),
             LAMBDA h : [m |-> IF r.q[1] % 2 = 1 /\ (r.sticky \/ (h[1] % 2 = 1))
                               THEN Plus(h, <<1>>) ELSE h,
                         e |-> e - r.s + 1]))

\* serde_json's table POW10: entry k (at place k + 1) is the f64 nearest to
\* 10^k, that is to 5^k * 2^k.  Decimals read into an f32 use the entries
\* up to 54 (see DecimalToF32).
POW10 ==
    SubSeq([k \in 1..55 |->
               With(FiveTo(k - 1), LAMBDA f : Round53(f, BitLenOf(f), k - 1, FALSE))],
           1, 55)

\* f *= pow for the significand d (an integer below 2^31, exact as an f64):
\* the product with pow's 53 bits has 52 or 53 bits more than d.
F64Times(d, pow) ==
    With(Times(pow.m, Digits(d)),
         LAMBDA p : Round53(p, IF Less(p, TwoTo(BitLen(d) + 52))
                               THEN BitLen(d) + 52 ELSE BitLen(d) + 53,
                            pow.e, FALSE))

\* The quotient of a by m, rounded down, and whether it is exact: the q
\* with q * m <= a < q * m + m.  It is q0, whose product with m is p0, or
\* within 5 of it: above by the number of times m goes into a - p0, below
\* by the number of times it takes to cover p0 - a.
Quotient(q0, a, m) ==
    With(Times(q0, m),
         LAMBDA p0 :
             IF a = p0 THEN [q |-> q0, exact |-> TRUE]
             ELSE IF Less(a, p0)
             THEN With(Minus(p0, a),
                       LAMBDA below :
                           [q |-> Minus(q0, Digits(Cardinality({i \in 0..4 :
                                      Less(Times(m, Digits(i)), below)}))),
                            exact |-> \E i \in 1..5 : Times(m, Digits(i)) = below])
             ELSE With(Minus(a, p0),
                       LAMBDA above :
                           [q |-> Plus(q0, Digits(Cardinality({i \in 1..5 :
                                      ~Less(above, Times(m, Digits(i)))}))),
                            exact |-> \E i \in 1..5 : Times(m, Digits(i)) = above]))

\* f /= pow for the significand d and pow = POW10[k]: d is widened to 107
\* bits (a = d * 2^s) and divided by pow's significand m, of 53 bits; the
\* quotient has 54 or 55 bits and is rounded once.  m * 2^pow.e is 10^k up
\* to one part in 2^53, so the quotient is within 5 of a * 2^pow.e / 10^k,
\* and is that number when the entry is exact (k up to 22).
F64Over(d, k, pow) ==
    With(Times(Digits(d), TwoTo(107 - BitLen(d))),
         LAMBDA a :
             With(Quotient(DropLow(IF pow.e >= 0 THEN Times(a, TwoTo(pow.e))
                                   ELSE Times(Digits(d), TwoTo(107 - BitLen(d) + pow.e)), k),
                           a, pow.m),
                  LAMBDA r : Round53(r.q, IF Less(r.q, TwoTo(54)) THEN 54 ELSE 55,
                                     BitLen(d) - 107 - pow.e, ~r.exact)))

\* f64_from_parts returns "number out of range" when the product is
\* infinite or the exponent is beyond the table (308) with a significand
\* that is not zero.  The product is infinite from 2^1024 - 2^970 on, which
\* is 1797693134.86...e299: with a significand below 2^31 the exponent must
\* be 299 or more, and the rounding of the table, near 1e-16, cannot move
\* the product across.
F64Overflows(digits, exp) ==
    /\ digits /= 0
    /\ \/ exp > 308
       \/ exp >= 299 /\ digits > 1797693134 \div 10^(exp - 299)

\* `v as f32` of a finite f64: its 25 leading bits rounded within the range
\* of an f32.
CastF32(neg, f) ==
    With(NarrowTo(f.m, 53, 25, FALSE),
         LAMBDA r : RoundF32(neg, ToInt(r.q), r.sticky, f.e - r.s))

\* A JSON float read into an f32: serde_json parses it to an f64
\* (f64_from_parts: the significand times, or over, the power of ten of the
\* table, rounded once), serde's f32 visitor casts that with `as f32`.  From
\* 1e39 on the f64 is above every f32 and the cast is an infinity; up to
\* 2^31 * 1e-55 it is below half the smallest subnormal f32, 2^-150, and the
\* cast is a zero.
DecimalToF32(neg, digits, exp) ==
    IF digits = 0 THEN F32(neg, 0, 0)
    ELSE IF exp >= 39 THEN Infinity(neg)
    ELSE IF exp <= -55 THEN F32(neg, 0, 0)
    ELSE With(POW10[(IF exp >= 0 THEN exp ELSE 0 - exp) + 1],
              LAMBDA pow : CastF32(neg, IF exp >= 0 THEN F64Times(digits, pow)
                                        ELSE F64Over(digits, 0 - exp, pow)))

\* Default::default() of a number of the given kind.
DefaultOf(kind) == IF kind = "f32" THEN F32(FALSE, 0, 0) ELSE 0

\* The value of the last pair of object pairs `ps` with key k, or None.
Lookup(ps, k) ==
    LET at == {i \in 1..Len(ps) : ps[i][1] = k}
    IN  IF at = {} THEN None
        ELSE Some(ps[CHOOSE i \in at : \A j \in at : j <= i][2])

\* The pairs <<key, Option>> whose value is Some, as <<key, value>> pairs.
OnlyEmitted(ps) ==
    LET kept == SelectSeq(ps, LAMBDA p : p[2] /= None)
    IN  [i \in 1..Len(kept) |-> <<kept[i][1], Unwrap(kept[i][2])>>]

\* A typed scalar to JSON, as the Serialize of its type does: an integer
\* type writes an integer, an f32 the shortest decimal that reads back as
\* the same f32, with a fraction.
ToJson(kind, v) ==
    CASE kind \in {"u8", "u32"} -> JNum(v)
      [] kind = "u64" -> JBig(v.hi, v.lo)
      [] kind = "f32" -> F32ToJson(v)
      [] kind = "bool" -> JBool(v)
      [] kind = "str" -> JStr(v)
      [] OTHER -> JStruct(v)

\* JSON to a typed scalar, as the Deserialize of its type does.  An integer
\* type takes a non-negative integer that fits it: a negative one or a
\* float is an invalid type, one too wide an invalid value (reported
\* alike).  An f32 takes every number, an integer cast with `as f32`, a
\* float parsed to an f64 and cast.  bool, String and the nested structs
\* take their own JSON kind.  Whatever the type, a float too large for an
\* f64 fails when it is parsed.
FromJson(kind, j, name) ==
    IF j.t = "float" /\ F64Overflows(j.digits, j.exp) THEN NumberOutOfRange(name) ELSE
    CASE kind = "u8" ->
            IF j.t = "num" /\ j.hi = 0 /\ j.v < 256 THEN Ok(j.v) ELSE InvalidType(name)
      [] kind = "u32" ->
            IF j.t = "num" /\ j.hi = 0 THEN Ok(j.v) ELSE InvalidType(name)
      [] kind = "u64" ->
            IF j.t = "num" THEN Ok(U64(j.hi, j.v)) ELSE InvalidType(name)
      [] kind = "f32" ->
            CASE j.t = "num" -> Ok(IntToF32(FALSE, j.hi, j.v))
              [] j.t = "neg" -> Ok(IntToF32(TRUE, 0, j.n))
              [] j.t = "float" -> Ok(DecimalToF32(j.neg, j.digits, j.exp))
              [] OTHER -> InvalidType(name)
      [] OTHER ->
            IF j.t /= kind THEN InvalidType(name) ELSE Ok(Scalar(j))

\* The `?` of the code: Op of the value of an Ok result, or else the error.
AndThen(r, Op(_)) == IF r.ok THEN Op(r.value) ELSE r

\* The first error of the results rs, or else Ok of their values, in order.
Collect(rs) ==
    IF \E i \in 1..Len(rs) : ~rs[i].ok
    THEN rs[CHOOSE i \in 1..Len(rs) : ~rs[i].ok /\ \A j \in 1..(i - 1) : rs[j].ok]
    ELSE Ok([i \in 1..Len(rs) |-> rs[i].value])

(***************************************************************************)
(* The merged entity codec.                                                *)
(***************************************************************************)

\* The fields of UserCompact other than statistics, in the order of
\* UserCompactWithoutStats: the Rust field, its wire key (serde rename),
\* whether it is an Option skipped when None, and the kind of its value.
F(field, key, optional, kind) ==
    [field |-> field, key |-> key, optional |-> optional, kind |-> kind]

UserFields == <<
    F("avatar_url", "avatar_url", FALSE, "str"),
    F("country_code", "country_code", FALSE, "str"),
    F("default_group", "default_group", FALSE, "str"),
    F("is_active", "is_active", FALSE, "bool"),
    F("is_bot", "is_bot", FALSE, "bool"),
    F("is_deleted", "is_deleted", FALSE, "bool"),
    F("is_online", "is_online", FALSE, "bool"),
    F("is_supporter", "is_supporter", FALSE, "bool"),
    F("last_visit", "last_visit", TRUE, "str"),
    F("pm_friends_only", "pm_friends_only", FALSE, "bool"),
    F("profile_color", "profile_colour", TRUE, "str"),
    F("user_id", "id", FALSE, "u32"),
    F("username", "username", FALSE, "str"),
    F("account_history", "account_history", TRUE, "struct"),
    F("badges", "badges", TRUE, "struct"),
    F("beatmap_playcounts_count", "beatmap_playcounts_count", TRUE, "u32"),
    F("country", "country", TRUE, "str"),
    F("cover", "cover", TRUE, "struct"),
    F("favourite_mapset_count", "favourite_beatmapset_count", TRUE, "u32"),
    F("follower_count", "follower_count", TRUE, "u32"),
    F("graveyard_mapset_count", "graveyard_beatmapset_count", TRUE, "u32"),
    F("groups", "groups", TRUE, "struct"),
    F("is_admin", "is_admin", TRUE, "bool"),
    F("is_bng", "is_bng", TRUE, "bool"),
    F("is_full_bn", "is_full_bn", TRUE, "bool"),
    F("is_gmt", "is_gmt", TRUE, "bool"),
    F("is_limited_bn", "is_limited_bn", TRUE, "bool"),
    F("is_moderator", "is_moderator", TRUE, "bool"),
    F("is_nat", "is_nat", TRUE, "bool"),
    F("is_silenced", "is_silenced", TRUE, "bool"),
    F("loved_mapset_count", "loved_beatmapset_count", TRUE, "u32"),
    F("medals", "user_achievements", TRUE, "struct"),
    F("monthly_playcounts", "monthly_playcounts", TRUE, "struct"),
    F("page", "page", TRUE, "struct"),
    F("previous_usernames", "previous_usernames", TRUE, "struct"),
    F("rank_history", "rank_history", TRUE, "struct"),
    F("ranked_mapset_count", "ranked_beatmapset_count", TRUE, "u32"),
    F("replays_watched_counts", "replays_watched_counts", TRUE, "struct"),
    F("scores_best_count", "scores_best_count", TRUE, "u32"),
    F("scores_first_count", "scores_first_count", TRUE, "u32"),
    F("scores_recent_count", "scores_recent_count", TRUE, "u32"),
    F("support_level", "support_level", TRUE, "u8"),
    F("pending_mapset_count", "pending_beatmapset_count", TRUE, "u32") >>

UserFieldNames == {UserFields[i].field : i \in 1..Len(UserFields)}

\* The 14 fields of UserStatistics in the order the encoder emits them: the
\* Rust field, its wire key, its kind (the type of the field in
\* UserStatistics: f32 for accuracy and pp, u64 for the scores and the
\* hits, u32 for the other numbers), and how the decoder treats it:
\* "required" (a slot filled by replace), "optional" (country_rank and
\* global_rank), "lenient" (play_time and pp: a null is the default).
S(field, key, kind, rule) ==
    [field |-> field, key |-> key, kind |-> kind, rule |-> rule]

StatFields == <<
    S("accuracy", "hit_accuracy", "f32", "required"),
    S("country_rank", "country_rank", "u32", "optional"),
    S("global_rank", "global_rank", "u32", "optional"),
    S("grade_counts", "grade_counts", "struct", "required"),
    S("is_ranked", "is_ranked", "bool", "required"),
    S("level", "level", "struct", "required"),
    S("max_combo", "maximum_combo", "u32", "required"),
    S("playcount", "play_count", "u32", "required"),
    S("playtime", "play_time", "u32", "lenient"),
    S("pp", "pp", "f32", "lenient"),
    S("ranked_score", "ranked_score", "u64", "required"),
    S("replays_watched", "replays_watched_by_others", "u32", "required"),
    S("total_hits", "total_hits", "u64", "required"),
    S("total_score", "total_score", "u64", "required") >>

StatKeys == {StatFields[i].key : i \in 1..Len(StatFields)}

StatByKey(k) == CHOOSE f \in {StatFields[i] : i \in 1..Len(StatFields)} : f.key = k

\* The keys the decoder demands, in the order it checks them.
RequiredKeys == <<
    "hit_accuracy", "grade_counts", "is_ranked", "level", "maximum_combo",
    "play_count", "play_time", "pp", "ranked_score",
    "replays_watched_by_others", "total_hits", "total_score", "user" >>

\* UserCompactWithoutStats::new: every field of the user but statistics.
UserCompactWithoutStatsNew(user) == [f \in UserFieldNames |-> user[f]]

\* The derived Serialize of UserCompactWithoutStats: the fields in
\* declaration order under their wire keys, an Option that is None skipped.
SerializeUserCompactWithoutStats(rec) ==
    JObj(OnlyEmitted([i \in 1..Len(UserFields) |->
        LET f == UserFields[i]
        IN  <<f.key, IF f.optional /\ rec[f.field] = None THEN None
                     ELSE Some(ToJson(f.kind, IF f.optional THEN Unwrap(rec[f.field])
                                              ELSE rec[f.field]))>>]))

\* SerializeStructLen without the two optional ranks counted.
SerializeStructLenFixed(stats) == 13

\* The length UserCompactBorrowed::serialize declares to serialize_struct.
SerializeStructLen(stats) ==
    13 + (IF IsSome(stats.country_rank) THEN 1 ELSE 0)
       + (IF IsSome(stats.global_rank) THEN 1 ELSE 0)

\* The statistics fields the encoder emits, in order: country_rank and
\* global_rank only when they are Some.
SerializeStatFields(stats) ==
    OnlyEmitted([i \in 1..Len(StatFields) |->
        LET f == StatFields[i]
        IN  <<f.key, IF f.rule = "optional" /\ stats[f.field] = None THEN None
                     ELSE Some(ToJson(f.kind, IF f.rule = "optional"
                                              THEN Unwrap(stats[f.field])
                                              ELSE stats[f.field]))>>])

\* UserCompactBorrowed::serialize: the statistics fields, then "user".
\* statistics.as_ref().unwrap() panics on a user without statistics.
UserCompactBorrowedSerialize(user) ==
    IF user.statistics = None THEN Panic("unwrap")
    ELSE Ok(JObj(SerializeStatFields(Unwrap(user.statistics))
                 \o << <<"user",
                         SerializeUserCompactWithoutStats(
                             UserCompactWithoutStatsNew(user))>> >>))

\* serialize_user_stats_vec: a JSON array of the users' envelopes, in order.
SerializeUserStatsVec(us) ==
    AndThen(Collect([i \in 1..Len(us) |-> UserCompactBorrowedSerialize(us[i])]),
            LAMBDA xs : Ok(JArr(xs)))

\* The derived Deserialize of UserCompact (src/model/user.rs): every field
\* from its wire key, a missing Option field None, a missing required field
\* an error, unknown keys ignored, statistics None when the object has none.
\* A decoded value as the value of an Option field or of a plain one.
Wrapped(optional, v) ==
    IF v.ok /\ optional THEN Ok(Some(v.value)) ELSE v

FieldFrom(f, got) ==
    IF got = None \/ (f.optional /\ Unwrap(got) = JNull)
    THEN IF f.optional THEN Ok(None) ELSE MissingField(f.key)
    ELSE Wrapped(f.optional, FromJson(f.kind, Unwrap(got), f.key))

\* The user built from the decoded field values vs, in the order of
\* UserFields; its statistics is None.
UserFromValues(vs) ==
    IF ~vs.ok THEN vs
    ELSE Ok([f \in UserFieldNames \cup {"statistics"} |->
               IF f = "statistics" THEN None
               ELSE vs.value[CHOOSE i \in 1..Len(UserFields) : UserFields[i].field = f]])

\* The error of a value of another JSON kind than the one expected:
\* serde_json parses a number before it reports the kind (peek_invalid_type,
\* parse_any_number), so a float too large for an f64 is a number out of
\* range; every other value is an invalid type.
WrongKind(j, name) ==
    IF j.t = "float" /\ F64Overflows(j.digits, j.exp) THEN NumberOutOfRange(name)
    ELSE InvalidType(name)

DeserializeUserCompact(j) ==
    IF j.t /= "obj" THEN WrongKind(j, "user")
    ELSE UserFromValues(Collect(
             [i \in 1..Len(UserFields) |->
                 FieldFrom(UserFields[i], Lookup(j.ps, UserFields[i].key))]))

\* The visitor's locals before the loop: every slot None.
EmptySlots == [k \in StatKeys \cup {"user"} |-> None]

\* The slots with slot `key` assigned the decoded value r, or r's error.
Assign(slots, key, r) ==
    IF r.ok THEN Ok([slots EXCEPT ![key] = r.value]) ELSE r

\* NextValue without the leniency: play_time and pp read as plain values.
NextValueStrict(f, value) ==
    IF f.rule = "optional" /\ value = JNull THEN Ok(None)
    ELSE Wrapped(TRUE, FromJson(f.kind, value, f.key))

\* next_value() into a slot of the given rule: replace(value) for a required
\* key, the Option itself for an optional one, replace(value or default)
\* for a lenient one.
NextValue(f, value) ==
    IF f.rule = "optional" /\ value = JNull THEN Ok(None)
    ELSE IF f.rule = "lenient" /\ value = JNull THEN Ok(Some(DefaultOf(f.kind)))
    ELSE Wrapped(TRUE, FromJson(f.kind, value, f.key))

\* next_value() for "user": an Option<UserCompact>.
NextUser(value) ==
    IF value = JNull THEN Ok(None) ELSE Wrapped(TRUE, DeserializeUserCompact(value))

\* map.next_key()? of both visitors reads the key as a &str, which serde_json
\* can only borrow from the input: a key written with an escape sequence
\* has to be unescaped into a buffer, and the read fails with an invalid
\* type (expected a borrowed string), whatever the key is.
NextKey(p) == IF Len(p) > 2 THEN InvalidType(p[1]) ELSE Ok(p[1])

\* One turn of the loop of UserStatsVisitor::visit_map on the pair p:
\* next_key()?, then the match on the key; the value of an unknown key is
\* skipped unread.
VisitKey(slots, p) ==
    IF ~NextKey(p).ok THEN NextKey(p)
    ELSE IF p[1] = "user" THEN Assign(slots, p[1], NextUser(p[2]))
    ELSE IF p[1] \in StatKeys THEN Assign(slots, p[1], NextValue(StatByKey(p[1]), p[2]))
    ELSE Ok(slots)

\* The loop of visit_map from pair i on; an error of next_key or of
\* next_value ends it.
RECURSIVE VisitKeys(_, _, _)
VisitKeys(ps, i, slots) ==
    IF i > Len(ps) THEN Ok(slots)
    ELSE AndThen(VisitKey(slots, ps[i]), LAMBDA filled : VisitKeys(ps, i + 1, filled))

\* The ok_or_else chain after the loop: the first empty slot, in the order
\* of RequiredKeys, is the missing field reported.
FirstMissing(slots) ==
    IF \A i \in 1..Len(RequiredKeys) : slots[RequiredKeys[i]] /= None THEN None
    ELSE Some(RequiredKeys[CHOOSE i \in 1..Len(RequiredKeys) :
                  /\ slots[RequiredKeys[i]] = None
                  /\ \A j \in 1..(i - 1) : slots[RequiredKeys[j]] /= None])

\* The UserStatistics built from the slots.
BuildStats(slots) ==
    [f \in {StatFields[i].field : i \in 1..Len(StatFields)} |->
        LET sf == CHOOSE x \in {StatFields[i] : i \in 1..Len(StatFields)} : x.field = f
        IN  IF sf.rule = "optional" THEN slots[sf.key] ELSE Unwrap(slots[sf.key])]

\* Finish naming a missing statistics field by its Rust name, not its key.
FinishRustName(slots, missing) ==
    IF IsSome(missing)
    THEN MissingField(IF Unwrap(missing) \in StatKeys
                      THEN StatByKey(Unwrap(missing)).field ELSE Unwrap(missing))
    ELSE Ok([Unwrap(slots["user"]) EXCEPT !.statistics = Some(BuildStats(slots))])

\* The end of visit_map: the missing-field checks, then the user with its
\* statistics replaced by the decoded ones.
Finish(slots, missing) ==
    IF IsSome(missing) THEN MissingField(Unwrap(missing))
    ELSE Ok([Unwrap(slots["user"]) EXCEPT !.statistics = Some(BuildStats(slots))])

\* UserStatsVisitor::visit_map.
VisitMap(ps) ==
    AndThen(VisitKeys(ps, 1, EmptySlots),
            LAMBDA slots : Finish(slots, FirstMissing(slots)))

\* UserCompactWrapper::deserialize: deserialize_map with the visitor.
DeserializeUserCompactWrapper(j) ==
    IF j.t /= "obj" THEN WrongKind(j, "UserStatistics") ELSE VisitMap(j.ps)

\* UserStatsVecVisitor::visit_seq: the elements in order, the first error
\* ending the decode.
VisitSeq(xs) ==
    Collect([i \in 1..Len(xs) |-> DeserializeUserCompactWrapper(xs[i])])

\* deserialize_user_stats_vec.
DeserializeUserStatsVec(j) ==
    IF j.t /= "arr" THEN WrongKind(j, "ranking") ELSE VisitSeq(j.xs)

(***************************************************************************)
(* The entities and wire documents of the codec's specification.           *)
(***************************************************************************)

\* The longest Vec<UserCompact> encoded.
MaxUsers == 2

\* A user with the given optional country, and every other field fixed.
UserOf(country, statistics) ==
    [avatar_url |-> "a.png", country_code |-> "DE", default_group |-> "default",
     is_active |-> TRUE, is_bot |-> FALSE, is_deleted |-> FALSE,
     is_online |-> TRUE, is_supporter |-> FALSE, last_visit |-> None,
     pm_friends_only |-> FALSE, profile_color |-> Some("#fff"), user_id |-> 2,
     username |-> "x", account_history |-> None, badges |-> None,
     beatmap_playcounts_count |-> None, country |-> country, cover |-> None,
     favourite_mapset_count |-> None, follower_count |-> Some(10),
     graveyard_mapset_count |-> None, groups |-> None, is_admin |-> None,
     is_bng |-> None, is_full_bn |-> None, is_gmt |-> None,
     is_limited_bn |-> None, is_moderator |-> Some(FALSE), is_nat |-> None,
     is_silenced |-> None, loved_mapset_count |-> None, medals |-> None,
     monthly_playcounts |-> None, page |-> None, previous_usernames |-> None,
     rank_history |-> Some(<<1, 2>>), ranked_mapset_count |-> None,
     replays_watched_counts |-> None, scores_best_count |-> None,
     scores_first_count |-> None, scores_recent_count |-> None,
     support_level |-> None, pending_mapset_count |-> None,
     statistics |-> statistics]

\* A UserStatistics with the given accuracy, optional ranks and pp;
\* play_time is not zero.
StatsOf(accuracy, country_rank, global_rank, pp) ==
    [accuracy |-> accuracy, country_rank |-> country_rank, global_rank |-> global_rank,
     grade_counts |-> [ss |-> 1, s |-> 2, a |-> 3], is_ranked |-> TRUE,
     level |-> [current |-> 100, progress |-> 5], max_combo |-> 1000,
     playcount |-> 5000, playtime |-> 100000,
     pp |-> pp,
     ranked_score |-> U64(0, 123456), replays_watched |-> 10,
     total_hits |-> U64(0, 99999), total_score |-> U64(0, 987654)]

Ranks == {None, Some(1)}

\* The pairs <<accuracy, pp>> of the users beside 98.5 and 7000.0: the
\* smallest subnormal f32 and the largest finite one; an infinite accuracy
\* (UserStatistics' fields are public, and the decoder itself yields an
\* infinity for a number from 1e39 on).
Floats == {<<F32(FALSE, 1, -149), F32(FALSE, 16777215, 104)>>,
           <<Infinity(FALSE), F32(FALSE, 875, 3)>>}

\* The users with statistics, in every combination of present ranks and
\* with each pair of floats, and the users without.
StatUsers ==
    {UserOf(Some("Germany"), Some(StatsOf(F32(FALSE, 197, -1), cr, gr, F32(FALSE, 875, 3)))) :
        cr \in Ranks, gr \in Ranks}
        \cup {UserOf(None, Some(StatsOf(f[1], None, Some(1), f[2]))) : f \in Floats}

BareUsers == {UserOf(None, None)}

RECURSIVE SeqsUpTo(_, _)
SeqsUpTo(S1, n) ==
    IF n = 0 THEN {<<>>}
    ELSE LET shorter == SeqsUpTo(S1, n - 1)
         IN  shorter \cup {Append(q, x) : q \in {r \in shorter : Len(r) = n - 1}, x \in S1}

\* Wire documents: the array with the pairs of element i changed.
WithPairs(doc, i, ps) == JArr([doc.xs EXCEPT ![i] = JObj(ps)])

\* The pairs `ps` without those of key k.
DropKey(ps, k) == SelectSeq(ps, LAMBDA p : p[1] /= k)

\* The pairs `ps` with every pair of key k written with an escape in the key.
EscapeKey(ps, k) ==
    [i \in 1..Len(ps) |-> IF ps[i][1] = k THEN Escaped(k, ps[i][2]) ELSE ps[i]]

\* The pairs `ps` with the value of every pair of key k replaced by null.
NullKey(ps, k) == [i \in 1..Len(ps) |-> IF ps[i][1] = k THEN <<k, JNull>> ELSE ps[i]]

CodecInit ==
    /\ users \in SeqsUpTo(StatUsers \cup BareUsers, MaxUsers)
    /\ encoded = None
    /\ wire = None
    /\ decoded = None

\* The caller serializes `users`.
Serialize ==
    /\ encoded = None
    /\ encoded' = Some(SerializeUserStatsVec(users))
    /\ UNCHANGED <<users, wire, decoded>>
    /\ UNCHANGED <<cursor_in, cursor_out, pages, calls, transport, origin>>

\* The encoder's document, once there is one.
Doc == Unwrap(encoded).value

CanSend == encoded /= None /\ Unwrap(encoded).ok /\ wire = None

\* The statistics the service holds are finite numbers: its documents are
\* those an encoder writes for such users, changed in one place.
CanAlter ==
    /\ CanSend
    /\ \A i \in 1..Len(users) :
          /\ IsFinite(Unwrap(users[i].statistics).accuracy)
          /\ IsFinite(Unwrap(users[i].statistics).pp)

\* The document reaches the decoder as the encoder wrote it.
SendIntact ==
    /\ CanSend
    /\ wire' = Some(Doc)
    /\ UNCHANGED <<users, encoded, decoded>>
    /\ UNCHANGED <<cursor_in, cursor_out, pages, calls, transport, origin>>

\* The service sends a document that differs from an encoder's output by
\* one key missing from one envelope.
SendWithoutKey ==
    /\ CanAlter
    /\ \E i \in 1..Len(Doc.xs) : \E k \in StatKeys \cup {"user"} :
          /\ Lookup(Doc.xs[i].ps, k) /= None
          /\ wire' = Some(WithPairs(Doc, i, DropKey(Doc.xs[i].ps, k)))
    /\ UNCHANGED <<users, encoded, decoded>>
    /\ UNCHANGED <<cursor_in, cursor_out, pages, calls, transport, origin>>

\* ... by one key whose value is null.
SendNullKey ==
    /\ CanAlter
    /\ \E i \in 1..Len(Doc.xs) : \E k \in StatKeys \cup {"user"} :
          /\ Lookup(Doc.xs[i].ps, k) /= None
          /\ wire' = Some(WithPairs(Doc, i, NullKey(Doc.xs[i].ps, k)))
    /\ UNCHANGED <<users, encoded, decoded>>
    /\ UNCHANGED <<cursor_in, cursor_out, pages, calls, transport, origin>>

\* ... by one key the decoder does not know, first or last in its envelope.
SendExtraKey ==
    /\ CanAlter
    /\ \E i \in 1..Len(Doc.xs) : \E first \in BOOLEAN :
          wire' = Some(WithPairs(Doc, i,
                      IF first THEN << <<"rank_change", JNum(4)>> >> \o Doc.xs[i].ps
                      ELSE Append(Doc.xs[i].ps, <<"rank_change", JNull>>)))
    /\ UNCHANGED <<users, encoded, decoded>>
    /\ UNCHANGED <<cursor_in, cursor_out, pages, calls, transport, origin>>

\* The pairs `ps` with the value of every pair of key k replaced by j.
SetKey(ps, k, j) == [i \in 1..Len(ps) |-> IF ps[i][1] = k THEN <<k, j>> ELSE ps[i]]

\* ... by pp, play_time or user written as another number: a negative integer;
\* an integer above 32 bits that an f32 cannot hold exactly; 1e39, above
\* every finite f32; 1e400, above every f64; 1e-46, below half the smallest
\* subnormal f32.
SendNumberKey ==
    /\ CanAlter
    /\ \E i \in 1..Len(Doc.xs) : \E k \in {"pp", "play_time", "user"} :
       \E j \in {JNeg(1), JBig(1, 3), JFloat(FALSE, 1, 39), JFloat(FALSE, 1, 400),
                 JFloat(FALSE, 1, -46)} :
          wire' = Some(WithPairs(Doc, i, SetKey(Doc.xs[i].ps, k, j)))
    /\ UNCHANGED <<users, encoded, decoded>>
    /\ UNCHANGED <<cursor_in, cursor_out, pages, calls, transport, origin>>

\* ... by one key written with an escape sequence: pp, which the decoder
\* knows, or one it does not know, last in its envelope.
SendEscapedKey ==
    /\ CanAlter
    /\ \E i \in 1..Len(Doc.xs) : \E known \in BOOLEAN :
          wire' = Some(WithPairs(Doc, i,
                      IF known THEN EscapeKey(Doc.xs[i].ps, "pp")
                      ELSE Append(Doc.xs[i].ps, Escaped("rank_change", JNum(4)))))
    /\ UNCHANGED <<users, encoded, decoded>>
    /\ UNCHANGED <<cursor_in, cursor_out, pages, calls, transport, origin>>

\* The receiver decodes the document.
Deserialize ==
    /\ wire /= None
    /\ decoded = None
    /\ decoded' = Some(DeserializeUserStatsVec(Unwrap(wire)))
    /\ UNCHANGED <<users, encoded, wire>>
    /\ UNCHANGED <<cursor_in, cursor_out, pages, calls, transport, origin>>

(***************************************************************************)
(* The page-number cursor decoder.                                         *)
(***************************************************************************)

\* The loop of RankingsCursorVisitor::visit_map from pair i on:
\* next_key()?, then "page" is read as a u32 into the slot, any other key's
\* value is skipped unread.
RECURSIVE VisitCursorKeys(_, _, _)
VisitCursorKeys(ps, i, page) ==
    IF i > Len(ps) THEN Ok(page)
    ELSE IF ~NextKey(ps[i]).ok THEN NextKey(ps[i])
    ELSE IF ps[i][1] = "page"
    THEN AndThen(FromJson("u32", ps[i][2], "page"),
                 LAMBDA n : VisitCursorKeys(ps, i + 1, Some(n)))
    ELSE VisitCursorKeys(ps, i + 1, page)

\* page.ok_or_else(|| Error::missing_field("page")).map(Some)
PageOrMissing(page) ==
    IF page = None THEN MissingField("page") ELSE Ok(Some(Unwrap(page)))

\* RankingsCursorVisitor::visit_map.
VisitCursorMap(ps) ==
    AndThen(VisitCursorKeys(ps, 1, None), LAMBDA page : PageOrMissing(page))

\* RankingsCursorVisitor::visit_u64: `v as u32` keeps the low 32 bits.
VisitU64(j) == Ok(Some(j.v))

\* The "cursor" field of Rankings and CountryRankings: serde's default
\* (None) when the key is absent, else deserialize_rankings_cursor, that is
\* deserialize_option with the visitor: visit_none for null, else visit_some,
\* whose deserialize_any reaches visit_u64 or visit_map; the visitor has no
\* other visit method, so any other JSON kind is an invalid type, once it
\* is parsed: a float too large for an f64 fails before.
DeserializeRankingsCursor(c) ==
    IF c = None THEN Ok(None)
    ELSE LET j == Unwrap(c)
         IN  CASE j.t = "null" -> Ok(None)
               [] j.t = "num" -> VisitU64(j)
               [] j.t = "obj" -> VisitCursorMap(j.ps)
               [] j.t = "float" /\ F64Overflows(j.digits, j.exp) -> NumberOutOfRange("cursor")
               [] OTHER -> InvalidType("cursor")

\* The most keys of a cursor object.
MaxCursorKeys == 2

\* The integers on the wire: 0, 3 and 7, and with the high word 1 those
\* numbers plus 2^32.
WireNumbers == {JBig(h, n) : h \in {0, 1}, n \in {0, 3, 7}}

\* The floats on the wire: 1.5, and 1e400, which no f64 holds.
WireFloats == {JFloat(FALSE, 15, -1), JFloat(FALSE, 1, 400)}

\* The pairs of a cursor object: page or another key with a number, a float,
\* a null or a string, and either key written with an escape.
CursorPairs ==
    {<<k, v>> : k \in {"page", "extra"},
                v \in WireNumbers \cup WireFloats \cup {JNull, JStr("x")}}
        \cup {Escaped(k, JNum(3)) : k \in {"page", "extra"}}

CursorWires ==
    {None} \cup {Some(j) : j \in WireNumbers \cup WireFloats \cup {JNull, JStr("x"), JNeg(1)}}
           \cup {Some(JObj(ps)) : ps \in SeqsUpTo(CursorPairs, MaxCursorKeys)}

CursorInit ==
    /\ cursor_in \in CursorWires
    /\ cursor_out = None

\* A page is decoded: its cursor field goes through the decoder.
DeserializeCursor ==
    /\ cursor_out = None
    /\ cursor_out' = Some(DeserializeRankingsCursor(cursor_in))
    /\ UNCHANGED cursor_in
    /\ UNCHANGED <<users, encoded, wire, decoded, pages, calls, transport, origin>>

(***************************************************************************)
(* Result pages and get_next.                                              *)
(***************************************************************************)

\* The most get_next futures created, and the most pages the caller keeps.
MaxCalls == 2

MaxPages == 2

GameModes == {"osu", "taiko"}

\* RankingType, by its serde name (rename_all = "lowercase").
RankingTypes == {"charts", "country", "performance", "score"}

\* The derived Deserialize of Rankings from the fields of a response body:
\* mode and ranking_type are read from the wire when present (serde default
\* None otherwise), next_page is the decoded "cursor".
DeserializeRankings(w) ==
    AndThen(DeserializeRankingsCursor(w.cursor),
            LAMBDA page : Ok([kind |-> "Rankings", mode |-> w.mode, next_page |-> page,
                              ranking |-> w.ranking, ranking_type |-> w.ranking_type,
                              total |-> w.total]))

\* The derived Deserialize of CountryRankings.
DeserializeCountryRankings(w) ==
    AndThen(DeserializeRankingsCursor(w.cursor),
            LAMBDA page : Ok([kind |-> "CountryRankings", next_page |-> page,
                              ranking |-> w.ranking, total |-> w.total]))

\* The derived Deserialize of News: the cursor is kept as it came.
DeserializeNews(w) ==
    Ok([kind |-> "News", cursor |-> w.cursor, posts |-> w.posts])

\* A logical request: the route, the mode, the page number or the cursor.
Request(route, mode, page, cursor) ==
    [route |-> route, mode |-> mode, page |-> page, cursor |-> cursor]

\* What the request futures of osu.performance_rankings(mode) and
\* osu.score_rankings(mode) do with a decoded page (src/request/ranking.rs):
\* they store the request's mode and ranking type in it.
FillContext(page, req) ==
    [page EXCEPT !.mode = Some(req.mode), !.ranking_type = Some(req.route)]

\* The decoded response of a request, as its future resolves.
DecodeResponse(req, w) ==
    CASE req.route \in {"performance", "score"} ->
            AndThen(DeserializeRankings(w), LAMBDA page : Ok(FillContext(page, req)))
      [] req.route = "country" -> DeserializeCountryRankings(w)
      [] OTHER -> DeserializeNews(w)

\* What a get_next future does when first polled: it returns None, panics,
\* or awaits the request it built.
ReturnNone == [tag |-> "None"]

Unreachable == [tag |-> "panic"]

Await(req) == [tag |-> "await", req |-> req]

ReturnSome(result) == [tag |-> "Some", result |-> result]

\* RankingsGetNext with the two arms of the match exchanged.
RankingsGetNextSwapped(self) ==
    IF self.next_page = None THEN ReturnNone
    ELSE IF self.mode = None THEN ReturnNone
    ELSE IF self.ranking_type = None THEN ReturnNone
    ELSE LET page == Unwrap(self.next_page)
             mode == Unwrap(self.mode)
             kind == Unwrap(self.ranking_type)
         IN  CASE kind = "performance" ->
                    Await(Request("score", mode, Some(page), None))
               [] kind = "score" ->
                    Await(Request("performance", mode, Some(page), None))
               [] OTHER -> Unreachable

\* Rankings::get_next up to its await.
RankingsGetNext(self) ==
    IF self.next_page = None THEN ReturnNone
    ELSE IF self.mode = None THEN ReturnNone
    ELSE IF self.ranking_type = None THEN ReturnNone
    ELSE LET page == Unwrap(self.next_page)
             mode == Unwrap(self.mode)
             kind == Unwrap(self.ranking_type)
         IN  CASE kind = "performance" ->
                    Await(Request("performance", mode, Some(page), None))
               [] kind = "score" ->
                    Await(Request("score", mode, Some(page), None))
               [] OTHER -> Unreachable

\* RankingsGetNextResume as rankings.ok(): a failure becomes None.
RankingsGetNextResumeOk(result) ==
    IF result.ok THEN ReturnSome(result) ELSE ReturnNone

\* Rankings::get_next after its await: Some(rankings).
RankingsGetNextResume(result) == ReturnSome(result)

\* CountryRankingsGetNext with next_page.unwrap_or_default() for next_page?.
CountryRankingsGetNextDefault(self, mode) ==
    Await(Request("country", mode,
                  Some(IF self.next_page = None THEN 0 ELSE Unwrap(self.next_page)),
                  None))

\* CountryRankings::get_next up to its await: the mode is the caller's.
CountryRankingsGetNext(self, mode) ==
    IF self.next_page = None THEN ReturnNone
    ELSE Await(Request("country", mode, Some(Unwrap(self.next_page)), None))

CountryRankingsGetNextResume(result) == ReturnSome(result)

\* News::has_more.
NewsHasMore(self) == self.cursor /= None

\* NewsGetNext replaying the original call without the stored cursor.
NewsGetNextNoCursor(self) ==
    IF self.cursor = None THEN ReturnNone
    ELSE Await(Request("news", None, None, None))

\* News::get_next up to its await: the stored cursor is cloned into the
\* request.
NewsGetNext(self) ==
    IF self.cursor = None THEN ReturnNone
    ELSE Await(Request("news", None, None, Some(Unwrap(self.cursor))))

NewsGetNextResume(result) == ReturnSome(result)

\* SelfAfterGetNext with the cursor taken out of the page, not cloned.
SelfAfterGetNextTake(self) ==
    IF self.kind = "News" THEN [self EXCEPT !.cursor = None]
    ELSE [self EXCEPT !.next_page = None]

\* get_next takes &self: the page after the call is the page before it.
SelfAfterGetNext(self) == self

\* get_next of the page's type; `arg` is the caller's mode argument, which
\* only CountryRankings::get_next takes.
GetNext(self, arg) ==
    CASE self.kind = "Rankings" -> RankingsGetNext(self)
      [] self.kind = "CountryRankings" -> CountryRankingsGetNext(self, Unwrap(arg))
      [] OTHER -> NewsGetNext(self)

GetNextResume(self, result) ==
    CASE self.kind = "Rankings" -> RankingsGetNextResume(result)
      [] self.kind = "CountryRankings" -> CountryRankingsGetNextResume(result)
      [] OTHER -> NewsGetNextResume(result)

\* The page's cursor is empty: no further page.
CursorEmpty(self) ==
    IF self.kind = "News" THEN self.cursor = None ELSE self.next_page = None

\* Response bodies.  The items of a page are abbreviated to their ids.
RankingsBody(mode, ranking_type, cursor) ==
    [mode |-> mode, ranking_type |-> ranking_type, cursor |-> cursor,
     ranking |-> <<2>>, total |-> 50]

CountryBody(cursor) == [cursor |-> cursor, ranking |-> <<"DE">>, total |-> 200]

NewsBody(cursor) == [cursor |-> cursor, posts |-> <<1>>]

\* The cursors of the bodies a first page is decoded from.
FirstCursors ==
    {None, Some(JNull), Some(JNum(3)), Some(JObj(<< <<"page", JNum(7)>> >>)),
     Some(JObj(<<>>))}

\* The cursors of the bodies that answer a get_next request.
NextCursors == {None, Some(JObj(<< <<"page", JNum(7)>> >>)), Some(JObj(<<>>))}

NewsCursors == {None, Some("c1")}

OkValues(results) == {r.value : r \in {x \in results : x.ok}}

\* The pages a caller can hold before any get_next: a Rankings decoded from
\* a body (Rankings is public and implements Deserialize), a Rankings
\* resolved by a performance or score request, a CountryRankings, a News.
DecodedRankings ==
    OkValues({DeserializeRankings(RankingsBody(m, k, c)) :
                 m \in {None, Some("osu")},
                 k \in {None} \cup {Some(t) : t \in RankingTypes},
                 c \in FirstCursors})

RequestedRankings ==
    OkValues({DecodeResponse(Request(route, m, None, None), RankingsBody(None, None, c)) :
                 route \in {"performance", "score"}, m \in GameModes,
                 c \in FirstCursors})

FirstPages ==
    DecodedRankings \cup RequestedRankings
        \cup OkValues({DeserializeCountryRankings(CountryBody(c)) : c \in FirstCursors})
        \cup OkValues({DeserializeNews(NewsBody(c)) : c \in NewsCursors})

\* The bodies the service may answer a request with.
Bodies(req) ==
    CASE req.route \in {"performance", "score"} ->
            {RankingsBody(None, k, c) : k \in {None, Some("country")}, c \in NextCursors}
      [] req.route = "country" -> {CountryBody(c) : c \in NextCursors}
      [] OTHER -> {NewsBody(c) : c \in {None, Some("c2")}}

TransportError == [ok |-> FALSE, err |-> "transport", field |-> "timeout"]

\* A get_next future: the page it borrows, the caller's mode argument, its
\* state, what its request resolved to and what it returned.
Call(page, arg) ==
    [page |-> page, arg |-> arg, state |-> "created", result |-> None, ret |-> None]

\* The start of a request future (as GetMultiplayerScore::start): the
\* request is handed to the transport, once.
Start(c, req) == Append(transport, [call |-> c, req |-> req])

\* The requests call c handed to the transport, in order.
IssuedBy(c) == SelectSeq(transport, LAMBDA e : e.call = c)

PagesInit ==
    /\ pages \in {<<p>> : p \in FirstPages}
    /\ calls = <<>>
    /\ transport = <<>>
    /\ origin = <<None>>

\* The caller calls get_next on a page: a future is created, nothing runs.
CallGetNext ==
    /\ Len(calls) < MaxCalls
    /\ \E p \in 1..Len(pages) :
          \E arg \in (IF pages[p].kind = "CountryRankings"
                      THEN {Some(m) : m \in GameModes} ELSE {None}) :
             calls' = Append(calls, Call(p, arg))
    /\ UNCHANGED <<pages, transport, origin>>
    /\ UNCHANGED <<users, encoded, wire, decoded, cursor_in, cursor_out>>

\* The future is polled for the first time: get_next runs to its return or
\* to its await, where the request's future hands the request to the
\* transport.
Poll ==
    \E c \in 1..Len(calls) :
       /\ UNCHANGED <<users, encoded, wire, decoded, cursor_in, cursor_out>>
       /\ UNCHANGED origin
       /\ calls[c].state = "created"
       /\ LET self == pages[calls[c].page]
              step == GetNext(self, calls[c].arg)
          IN  /\ pages' = [pages EXCEPT ![calls[c].page] = SelfAfterGetNext(self)]
              /\ IF step.tag = "await"
                 THEN /\ calls' = [calls EXCEPT ![c].state = "pending"]
                      /\ transport' = Start(c, step.req)
                 ELSE /\ calls' = [calls EXCEPT ![c].state = "done",
                                                ![c].ret = Some(step)]
                      /\ UNCHANGED transport

\* The future resumes with `result`, what its request resolved to.
Resume(c, result) ==
    LET self == pages[calls[c].page]
    IN  /\ calls' = [calls EXCEPT ![c].state = "done",
                                  ![c].result = Some(result),
                                  ![c].ret = Some(GetNextResume(self, result))]
        /\ pages' = IF result.ok /\ Len(pages) < MaxPages
                    THEN Append(pages, result.value) ELSE pages
        /\ origin' = IF result.ok /\ Len(pages) < MaxPages
                     THEN Append(origin, Some(IssuedBy(c)[1].req)) ELSE origin
        /\ UNCHANGED transport
        /\ UNCHANGED <<users, encoded, wire, decoded, cursor_in, cursor_out>>

\* The service answers the request with a body, which is decoded.
Respond ==
    \E c \in 1..Len(calls) :
       /\ calls[c].state = "pending"
       /\ \E body \in Bodies(IssuedBy(c)[1].req) :
             Resume(c, DecodeResponse(IssuedBy(c)[1].req, body))

\* The transport fails the request.
Fail ==
    \E c \in 1..Len(calls) :
       /\ calls[c].state = "pending"
       /\ Resume(c, TransportError)

\* The caller discards the future before it completes.
DropFuture ==
    \E c \in 1..Len(calls) :
       /\ calls[c].state \in {"created", "pending"}
       /\ calls' = [calls EXCEPT ![c].state = "dropped"]
       /\ UNCHANGED <<pages, transport, origin>>
       /\ UNCHANGED <<users, encoded, wire, decoded, cursor_in, cursor_out>>

(***************************************************************************)
(* The specification: the codec, the cursor decoder and the pages are      *)
(* independent; a behaviour exercises one of them from one of its initial  *)
(* states, the other two at rest in a state where they have nothing to do. *)
(***************************************************************************)
CodecIdle ==
    /\ users = <<>>
    /\ encoded = Some(Ok(JArr(<<>>)))
    /\ wire = Some(JArr(<<>>))
    /\ decoded = Some(Ok(<<>>))

CursorIdle == cursor_in = None /\ cursor_out = Some(Ok(None))

PagesIdle == pages = <<>> /\ calls = <<>> /\ transport = <<>> /\ origin = <<>>

Init ==
    \/ CodecInit /\ CursorIdle /\ PagesIdle
    \/ CodecIdle /\ CursorInit /\ PagesIdle
    \/ CodecIdle /\ CursorIdle /\ PagesInit

Next ==
    \/ Serialize
    \/ SendIntact
    \/ SendWithoutKey
    \/ SendNullKey
    \/ SendExtraKey
    \/ SendNumberKey
    \/ SendEscapedKey
    \/ Deserialize
    \/ DeserializeCursor
    \/ CallGetNext
    \/ Poll
    \/ Respond
    \/ Fail
    \/ DropFuture

Spec == Init /\ [][Next]_vars

(***************************************************************************)
(* The claims.                                                             *)
(***************************************************************************)

\* The encoder's document with key k of envelope i null, or missing.
Nulled(i, k) == WithPairs(Doc, i, NullKey(Doc.xs[i].ps, k))

Without(i, k) == WithPairs(Doc, i, DropKey(Doc.xs[i].ps, k))

\* C1: round trip.  When the document the encoder wrote for `users` (every
\* user with statistics, whatever its numbers are, the optional ranks
\* present or absent in every combination) is decoded as it is, the result
\* is Ok of a sequence equal to `users`: the same length, the same entities
\* in the same order.
C1_RoundTrip ==
    (decoded /= None /\ wire = Some(Doc)) => Unwrap(decoded) = Ok(users)

\* The page number a decoded cursor holds is the number j of the wire: a
\* page number has 32 bits, so j has no high word and the page is its low one.
PageIs(r, j) == r.ok /\ j.hi = 0 /\ r.value = Some(j.v)

\* The pairs of key "page" of a cursor object, whatever way the key is
\* written.
PagePairs(j) == {i \in 1..Len(j.ps) : j.ps[i][1] = "page"}

\* C2: the cursor decode table.  An absent or null cursor decodes to None;
\* a bare non-negative integer n to the page number n; an object whose
\* "page" is the integer n to the page number n whatever its other keys
\* are; an object without "page" fails with the missing field "page".
C2_CursorDecodeTable ==
    cursor_out /= None =>
        /\ (cursor_in = None \/ cursor_in = Some(JNull))
              => Unwrap(cursor_out) = Ok(None)
        /\ (cursor_in /= None /\ Unwrap(cursor_in).t = "num")
              => PageIs(Unwrap(cursor_out), Unwrap(cursor_in))
        /\ \A n \in WireNumbers :
              (/\ cursor_in /= None
               /\ Unwrap(cursor_in).t = "obj"
               /\ PagePairs(Unwrap(cursor_in)) /= {}
               /\ \A i \in PagePairs(Unwrap(cursor_in)) : Unwrap(cursor_in).ps[i][2] = n)
              => PageIs(Unwrap(cursor_out), n)
        /\ (/\ cursor_in /= None
            /\ Unwrap(cursor_in).t = "obj"
            /\ PagePairs(Unwrap(cursor_in)) = {})
              => Unwrap(cursor_out) = MissingField("page")

\* C3: leniency asymmetry.  For pp and play_time, an envelope with the key
\* null decodes, that field zero and all else as encoded; an envelope
\* without the key fails with the missing field of that name.
C3_LeniencyAsymmetry ==
    decoded /= None =>
        \A i \in 1..Len(users) : \A k \in {"pp", "play_time"} :
            /\ wire = Some(Nulled(i, k))
                  => Unwrap(decoded) =
                        Ok([users EXCEPT ![i].statistics =
                               Some([Unwrap(@) EXCEPT ![StatByKey(k).field] =
                                         IF k = "pp" THEN F32(FALSE, 0, 0) ELSE 0])])
            /\ wire = Some(Without(i, k)) => Unwrap(decoded) = MissingField(k)

\* The second envelope's pp was null and has been decoded as 0.
C3_Witness ==
    /\ Len(users) = 2
    /\ decoded /= None
    /\ wire = Some(Nulled(2, "pp"))
    /\ Unwrap(decoded).ok
    /\ Unwrap(Unwrap(decoded).value[2].statistics).pp = F32(FALSE, 0, 0)
    /\ Unwrap(users[2].statistics).pp /= F32(FALSE, 0, 0)

\* C4: missing required field.  For each of the 12 required statistics
\* keys and "user", decoding a document in which one envelope lacks just
\* that key fails with the missing field of that name: no entity comes out.
C4_MissingRequiredField ==
    decoded /= None =>
        \A i \in 1..Len(users) : \A n \in 1..Len(RequiredKeys) :
            wire = Some(Without(i, RequiredKeys[n]))
               => Unwrap(decoded) = MissingField(RequiredKeys[n])

\* An envelope without hit_accuracy has been refused by that name.
C4_Witness ==
    /\ Len(users) = 2
    /\ decoded = Some(MissingField("hit_accuracy"))
    /\ wire = Some(Without(2, "hit_accuracy"))

\* C5: exhaustion.  A get_next on a page whose cursor is empty, of any of
\* the three page types, never hands a request to the transport, never
\* waits, and returns None.
C5_Exhaustion ==
    \A c \in 1..Len(calls) :
        CursorEmpty(pages[calls[c].page]) =>
            /\ IssuedBy(c) = <<>>
            /\ calls[c].state /= "pending"
            /\ calls[c].state = "done" => calls[c].ret = Some(ReturnNone)

\* A get_next on an exhausted CountryRankings has returned None, and the
\* transport has seen nothing.
C5_Witness ==
    \E c \in 1..Len(calls) :
        /\ pages[calls[c].page].kind = "CountryRankings"
        /\ CursorEmpty(pages[calls[c].page])
        /\ calls[c].state = "done"
        /\ calls[c].ret = Some(ReturnNone)
        /\ transport = <<>>

\* C6: get_next of a Rankings returns None only when next_page is None.
C6_NoneOnlyWhenExhausted ==
    \A c \in 1..Len(calls) :
        (/\ pages[calls[c].page].kind = "Rankings"
         /\ calls[c].state = "done"
         /\ calls[c].ret = Some(ReturnNone))
        => pages[calls[c].page].next_page = None

\* The request Rankings::get_next is to issue for a dispatchable page.
DispatchOf(self) ==
    Request(Unwrap(self.ranking_type), Unwrap(self.mode), self.next_page, None)

Dispatchable(self) ==
    /\ self.kind = "Rankings"
    /\ IsSome(self.next_page)
    /\ IsSome(self.mode)
    /\ self.ranking_type \in {Some("performance"), Some("score")}

\* C7: dispatch exactness.  A get_next on a Rankings with next_page p, mode
\* m and ranking type k (performance or score) hands the transport no
\* request before it runs and, once it has run, exactly one: the k ranking
\* of mode m, page p.  Every request of the transport is some call's.
C7_DispatchExact ==
    /\ \A n \in 1..Len(transport) : transport[n].call \in 1..Len(calls)
    /\ \A c \in 1..Len(calls) :
          Dispatchable(pages[calls[c].page]) =>
             /\ calls[c].state = "created" => IssuedBy(c) = <<>>
             /\ calls[c].state \in {"pending", "done"} =>
                   IssuedBy(c) = << [call |-> c,
                                     req |-> DispatchOf(pages[calls[c].page])] >>
             /\ calls[c].state = "dropped" => Len(IssuedBy(c)) <= 1

\* A get_next on a score ranking of mode taiko has completed with a page,
\* after its one request.
C7_Witness ==
    \E c \in 1..Len(calls) :
        /\ Dispatchable(pages[calls[c].page])
        /\ pages[calls[c].page].ranking_type = Some("score")
        /\ pages[calls[c].page].mode = Some("taiko")
        /\ calls[c].state = "done"
        /\ Unwrap(calls[c].ret).tag = "Some"
        /\ Unwrap(calls[c].ret).result.ok
        /\ Len(IssuedBy(c)) = 1

\* C8: unreachable-state guard.  No Rankings a caller can hold carries the
\* ranking type charts or country, so that no get_next reaches the
\* unreachable branch of the match.
C8_UnreachableNeverReached ==
    \A c \in 1..Len(calls) : calls[c].ret /= Some(Unreachable)

\* C9: failure forwarding.  When the request of a get_next fails, by the
\* transport or in decoding the next page, get_next returns Some of exactly
\* that error, not None, and its request was the only one it issued.
C9_FailureForwarded ==
    \A c \in 1..Len(calls) :
        (/\ calls[c].state = "done"
         /\ calls[c].result /= None
         /\ ~Unwrap(calls[c].result).ok)
        => /\ calls[c].ret = Some(ReturnSome(Unwrap(calls[c].result)))
           /\ Len(IssuedBy(c)) = 1

\* A get_next on a Rankings has returned the decode error of the next page.
C9_Witness ==
    \E c \in 1..Len(calls) :
        /\ pages[calls[c].page].kind = "Rankings"
        /\ calls[c].state = "done"
        /\ calls[c].result = Some(MissingField("page"))
        /\ calls[c].ret = Some(ReturnSome(MissingField("page")))

\* C10: page immutability.  No step changes a page that exists, whatever
\* the calls on it do (run, complete, fail, return None, be dropped), and
\* every request issued is the one get_next builds from the call's own page
\* and argument.
C10_PageImmutable ==
    [][/\ \A p \in 1..Len(pages) : pages'[p] = pages[p]
       /\ \A n \in 1..Len(transport') :
             transport'[n].req =
                GetNext(pages'[calls'[transport'[n].call].page],
                        calls'[transport'[n].call].arg).req]_vars

\* Two calls on the same News page: one completed with the next page, the
\* other was dropped while pending, both after the same request.
C10_Witness ==
    /\ Len(calls) = 2
    /\ calls[1].page = 1
    /\ calls[2].page = 1
    /\ pages[1].kind = "News"
    /\ calls[1].state = "done"
    /\ calls[2].state = "dropped"
    /\ Len(transport) = 2
    /\ transport[1].req = transport[2].req
    /\ Unwrap(calls[1].ret).tag = "Some"

\* C11: opaque-token pagination for News.  has_more is true exactly when
\* the page stores a cursor token; a completed get_next returned None
\* exactly when has_more is false, and then issued no request; when a token
\* is stored, a get_next that has run issued one request, the news request
\* whose cursor is the stored token itself, with no page number.
C11_NewsOpaqueToken ==
    /\ \A p \in 1..Len(pages) :
          pages[p].kind = "News" =>
              (NewsHasMore(pages[p]) <=> pages[p].cursor /= None)
    /\ \A c \in 1..Len(calls) :
          pages[calls[c].page].kind = "News" =>
             LET self == pages[calls[c].page]
             IN  /\ calls[c].state = "done" =>
                       (calls[c].ret = Some(ReturnNone) <=> ~NewsHasMore(self))
                 /\ calls[c].state = "created" => IssuedBy(c) = <<>>
                 /\ ~NewsHasMore(self) => IssuedBy(c) = <<>>
                 /\ (NewsHasMore(self) /\ calls[c].state \in {"pending", "done"}) =>
                       IssuedBy(c) =
                          << [call |-> c,
                              req |-> [route |-> "news", mode |-> None,
                                       page |-> None, cursor |-> self.cursor]] >>

\* A get_next on a News page storing the token c1 completed with the next
\* page after its one request carrying c1, and a get_next on that next
\* page, which stores no token, returned None.
C11_Witness ==
    /\ Len(calls) = 2
    /\ Len(pages) = 2
    /\ pages[1].kind = "News"
    /\ pages[1].cursor = Some("c1")
    /\ pages[2].cursor = None
    /\ calls[1].page = 1
    /\ calls[1].state = "done"
    /\ Unwrap(calls[1].ret).tag = "Some"
    /\ IssuedBy(1)[1].req.cursor = Some("c1")
    /\ calls[2].page = 2
    /\ calls[2].state = "done"
    /\ calls[2].ret = Some(ReturnNone)

\* C12: country-aggregate pages carry their own re-fetch context.  A
\* get_next on a CountryRankings page with next page p, once it has run,
\* has issued the request for page p of the country ranking with the mode
\* of the request that produced the page.
C12_CountryContext ==
    \A c \in 1..Len(calls) :
        (/\ pages[calls[c].page].kind = "CountryRankings"
         /\ IsSome(pages[calls[c].page].next_page)
         /\ IsSome(origin[calls[c].page])
         /\ calls[c].state \in {"pending", "done"})
        => IssuedBy(c) =
              << [call |-> c,
                  req |-> [route |-> "country",
                           mode |-> Unwrap(origin[calls[c].page]).mode,
                           page |-> pages[calls[c].page].next_page,
                           cursor |-> None]] >>

\* The keys of object pairs, in order.
KeysOf(ps) == [i \in 1..Len(ps) |-> ps[i][1]]

\* The keys C13 expects of the envelope of a user with statistics `stats`.
EnvelopeKeys(stats) ==
    <<"hit_accuracy">>
        \o (IF IsSome(stats.country_rank) THEN <<"country_rank">> ELSE <<>>)
        \o (IF IsSome(stats.global_rank) THEN <<"global_rank">> ELSE <<>>)
        \o <<"grade_counts", "is_ranked", "level", "maximum_combo",
              "play_count", "play_time", "pp", "ranked_score",
              "replays_watched_by_others", "total_hits", "total_score", "user">>

\* C13: encode output shape.  For users that all have statistics, the
\* encoder emits one object per user, in order, whose keys are
\* hit_accuracy, country_rank iff present, global_rank iff present, the
\* ten other statistics keys in their fixed order, then user last; the
\* number of keys is the length declared to the serializer, 13 plus the
\* number of present ranks; and the user object has no statistics key.
C13_EncodeShape ==
    (encoded /= None /\ Unwrap(encoded).ok) =>
        /\ Len(Doc.xs) = Len(users)
        /\ \A i \in 1..Len(users) :
              LET ps == Doc.xs[i].ps
                  stats == Unwrap(users[i].statistics)
              IN  /\ KeysOf(ps) = EnvelopeKeys(stats)
                  /\ Len(ps) = SerializeStructLen(stats)
                  /\ Len(ps) = 13 + Cardinality({k \in {"country_rank", "global_rank"} :
                                                    IsSome(stats[k])})
                  /\ ps[Len(ps)][2].t = "obj"
                  /\ Lookup(ps[Len(ps)][2].ps, "statistics") = None
                  /\ \A k \in StatKeys : Lookup(ps[Len(ps)][2].ps, k) = None

\* Two users were encoded: one with a country rank and no global rank, one
\* with both ranks.
C13_Witness ==
    /\ encoded /= None
    /\ Unwrap(encoded).ok
    /\ Len(users) = 2
    /\ IsSome(Unwrap(users[1].statistics).country_rank)
    /\ ~IsSome(Unwrap(users[1].statistics).global_rank)
    /\ IsSome(Unwrap(users[2].statistics).country_rank)
    /\ IsSome(Unwrap(users[2].statistics).global_rank)
    /\ Len(Doc.xs[1].ps) = 14
    /\ Len(Doc.xs[2].ps) = 15

\* C14: wire-shape independence of the page-number cursor.  For every
\* non-negative integer n of the wire, up to 64 bits, the bare integer n
\* and the object {"page": n} decode to the same outcome: both to the page
\* number n itself, or both to a failure.
C14_WireShapeIndependent ==
    (/\ cursor_in /= None
     /\ cursor_out /= None
     /\ Unwrap(cursor_in).t = "num")
    => LET n == Unwrap(cursor_in)
           bare == Unwrap(cursor_out)
           object == DeserializeRankingsCursor(Some(JObj(<< <<"page", n>> >>)))
       IN  /\ bare.ok <=> object.ok
           /\ bare.ok => /\ bare.value = object.value
                         /\ n.hi = 0
                         /\ bare.value = Some(n.v)

====
